---- MODULE Spec2Model ----
(***************************************************************************)
(* The in-memory filesystem of server/src/imfs/interface.rs: Imfs<F> owns  *)
(* a PathMap<ImfsItem> and an ImfsFetcher; get, get_contents and           *)
(* get_children fill the map lazily; would_be_resident is a query.         *)
(***************************************************************************)
EXTENDS Naturals, Sequences, FiniteSets, TLC

\* ---------------------------------------------------------------- bounds
NumNames == 2      \* path components are drawn from 1..NumNames
MaxDepth == 1      \* a path has at most MaxDepth components
NumBytes == 2      \* distinct byte strings a file may hold
MaxItems == 3      \* miss-fills stop once the map holds MaxItems items

\* ----------------------------------------------------------------- paths
Names == 1..NumNames

Paths == UNION {[1..n -> Names] : n \in 0..MaxDepth}

Root == <<>>

\* Option<T>
None == [tag |-> "None"]

Some(v) == [tag |-> "Some", val |-> v]

\* Path::parent: None for the root, else the path without its last component
Parent(p) == IF Len(p) = 0 THEN None ELSE Some(SubSeq(p, 1, Len(p) - 1))

\* the path a fetcher may put in an item instead of the one it was asked for
AliasPath == <<1>>

\* ----------------------------------------------------------------- items
Bytes == 1..NumBytes

NoBytes == 0

NoItem == [kind |-> "Absent"]

ImfsFile(path, contents) ==
    [kind |-> "File", path |-> path, contents |-> contents]

ImfsDirectory(path, enumerated) ==
    [kind |-> "Directory", path |-> path, children_enumerated |-> enumerated]

\* ImfsItem::path
ItemPath(item) == item.path

ImfsEntry(path, is_file) == [path |-> path, is_file |-> is_file]

\* ImfsEntry::is_directory
IsDirectory(entry) == ~entry.is_file

\* --------------------------------------------------------------- fetcher
Ok(v) == [tag |-> "Ok", val |-> v]

Err(kind) == [tag |-> "Err", val |-> kind]

ErrorKinds == {"NotFound", "Other"}

\* what ImfsFetcher::read_item(p) may answer: io::Result<ImfsItem>
ReadItemResults(p) ==
    {Err(k) : k \in ErrorKinds}
    \cup {Ok(ImfsFile(q, c)) : q \in {p, AliasPath}, c \in {NoBytes} \cup Bytes}
    \cup {Ok(ImfsDirectory(q, e)) : q \in {p, AliasPath}, e \in BOOLEAN}

\* what ImfsFetcher::read_contents(p) may answer: io::Result<Vec<u8>>
ReadContentsResults == {Err(k) : k \in ErrorKinds} \cup {Ok(b) : b \in Bytes}

Call(fn, p, ret) == [fn |-> fn, path |-> p, ret |-> ret]

\* --------------------------------------------------------------- PathMap
ContainsKey(map, p) == map[p] # NoItem

Insert(map, p, item) == [map EXCEPT ![p] = item]

Children(map, p) ==
    IF ContainsKey(map, p)
    THEN Some({q \in Paths : ContainsKey(map, q) /\ Parent(q) = Some(p)})
    ELSE None

Resident(map) == {p \in Paths : ContainsKey(map, p)}

\* ----------------------------------------------------------------- state
VARIABLES
    inner,              \* Imfs::inner, the PathMap<ImfsItem>
    panicked,           \* an expect() has aborted the program
    last,               \* the last operation: its argument, result, fetches
    readItemCalls,      \* per path, the read_item calls made so far
    readContentsCalls,  \* per path, the read_contents calls made so far
    firstContents       \* per path, the bytes of the first get_contents

vars == <<inner, panicked, last, readItemCalls, readContentsCalls, firstContents>>

Panic == [tag |-> "Panic"]

Op(op, p, result, calls) ==
    [op |-> op, path |-> p, result |-> result, calls |-> calls]

Count(calls, fn, p) ==
    Cardinality({i \in 1..Len(calls) : calls[i].fn = fn /\ calls[i].path = p})

Record(calls) ==
    /\ readItemCalls' =
         [p \in Paths |-> readItemCalls[p] + Count(calls, "read_item", p)]
    /\ readContentsCalls' =
         [p \in Paths |-> readContentsCalls[p] + Count(calls, "read_contents", p)]

Init ==
    /\ inner = [p \in Paths |-> NoItem]
    /\ panicked = FALSE
    /\ last = Op("new", Root, None, <<>>)
    /\ readItemCalls = [p \in Paths |-> 0]
    /\ readContentsCalls = [p \in Paths |-> 0]
    /\ firstContents = [p \in Paths |-> NoBytes]

\* ------------------------------------------------------------ operations
\* the outcome of running a method on a map: the map afterwards, whether an
\* expect() panicked, the fetcher calls made in order, and the value returned
Outcome(map, panic, calls, result) ==
    [inner |-> map, panic |-> panic, calls |-> calls, result |-> result]

\* would_be_resident as its doc comment words it: the parent was enumerated
WouldBeResidentEnumerated(map, p) ==
    IF ContainsKey(map, p) THEN TRUE
    ELSE IF /\ Parent(p) # None
            /\ map[Parent(p).val].kind = "Directory"
         THEN map[Parent(p).val].children_enumerated
         ELSE FALSE

\* Imfs::would_be_resident
WouldBeResident(map, p) ==
    IF ContainsKey(map, p) THEN TRUE
    ELSE IF /\ Parent(p) # None
            /\ map[Parent(p).val].kind = "Directory"
         THEN ~map[Parent(p).val].children_enumerated
         ELSE FALSE

\* read_if_not_exists without the contains_key test
ReadIfNotExistsAlways(map, p, r) ==
    IF r.tag = "Err"
    THEN [inner |-> map, panic |-> TRUE,
          calls |-> <<Call("read_item", p, r)>>, result |-> Panic]
    ELSE [inner |-> Insert(map, p, r.val), panic |-> FALSE,
          calls |-> <<Call("read_item", p, r)>>, result |-> None]

\* read_if_not_exists inserting under the path the item carries
ReadIfNotExistsAtItemPath(map, p, r) ==
    IF ~ContainsKey(map, p)
    THEN IF r.tag = "Err"
         THEN [inner |-> map, panic |-> TRUE,
               calls |-> <<Call("read_item", p, r)>>, result |-> Panic]
         ELSE [inner |-> Insert(map, ItemPath(r.val), r.val), panic |-> FALSE,
               calls |-> <<Call("read_item", p, r)>>, result |-> None]
    ELSE [inner |-> map, panic |-> FALSE, calls |-> <<>>, result |-> None]

\* Imfs::read_if_not_exists, r being the answer read_item(p) gives if asked
ReadIfNotExists(map, p, r) ==
    IF ~ContainsKey(map, p)
    THEN IF r.tag = "Err"
         THEN Outcome(map, TRUE, <<Call("read_item", p, r)>>, Panic)
         ELSE Outcome(Insert(map, p, r.val), FALSE,
                      <<Call("read_item", p, r)>>, None)
    ELSE Outcome(map, FALSE, <<>>, None)

\* get asking the fetcher again for a path the map already holds
GetOnRefresh(map, p, r) ==
    LET s == ReadIfNotExists(Insert(map, p, NoItem), p, r)
        item == s.inner[p]
    IN  IF s.panic THEN Outcome(map, TRUE, s.calls, Panic)
        ELSE Outcome(s.inner, FALSE, s.calls,
                     Some(ImfsEntry(ItemPath(item), item.kind = "File")))

\* get taking the item out of the map instead of borrowing it
GetOnTake(map, p, r) ==
    LET s == ReadIfNotExists(map, p, r)
        item == s.inner[p]
    IN  IF s.panic THEN s
        ELSE Outcome(Insert(s.inner, p, NoItem), FALSE, s.calls,
                     Some(ImfsEntry(ItemPath(item), item.kind = "File")))

\* get loading the contents of a file along with its item
GetOnEager(map, p, r) ==
    LET s == ReadIfNotExists(map, p, r)
        item == s.inner[p]
    IN  IF s.panic THEN s
        ELSE IF item.kind = "File" /\ item.contents = NoBytes
        THEN Outcome(Insert(s.inner, p, ImfsFile(item.path, 1)), FALSE,
                     Append(s.calls, Call("read_contents", p, Ok(1))),
                     Some(ImfsEntry(ItemPath(item), TRUE)))
        ELSE Outcome(s.inner, FALSE, s.calls,
                     Some(ImfsEntry(ItemPath(item), item.kind = "File")))

\* get building the entry from the path asked for, not the item's path
GetOnKeyPath(map, p, r) ==
    LET s == ReadIfNotExists(map, p, r)
        item == s.inner[p]
    IN  IF s.panic THEN s
        ELSE Outcome(s.inner, FALSE, s.calls,
                     Some(ImfsEntry(p, item.kind = "File")))

\* Imfs::get
GetOn(map, p, r) ==
    LET s == ReadIfNotExists(map, p, r)
        item == s.inner[p]
    IN  IF s.panic THEN s
        ELSE IF item = NoItem THEN Outcome(s.inner, FALSE, s.calls, None)
        ELSE Outcome(s.inner, FALSE, s.calls,
                     Some(ImfsEntry(ItemPath(item), item.kind = "File")))

\* get_contents reading the contents again although the buffer is filled
GetContentsOnRefetch(map, p, r, c) ==
    LET s == ReadIfNotExists(map, p, r)
        item == s.inner[p]
    IN  IF s.panic THEN s
        ELSE IF item = NoItem THEN Outcome(s.inner, FALSE, s.calls, None)
        ELSE IF item.kind = "File"
        THEN LET calls == Append(s.calls, Call("read_contents", p, c))
             IN  IF c.tag = "Err"
                 THEN Outcome(s.inner, TRUE, calls, Panic)
                 ELSE Outcome(Insert(s.inner, p, ImfsFile(item.path, c.val)),
                              FALSE, calls, Some(c.val))
        ELSE Outcome(s.inner, FALSE, s.calls, None)

\* get_contents reading contents whatever the kind of the item
GetContentsOnAnyKind(map, p, r, c) ==
    LET s == ReadIfNotExists(map, p, r)
        item == s.inner[p]
    IN  IF s.panic THEN s
        ELSE IF item = NoItem THEN Outcome(s.inner, FALSE, s.calls, None)
        ELSE IF item.kind = "File" /\ item.contents # NoBytes
        THEN Outcome(s.inner, FALSE, s.calls, Some(item.contents))
        ELSE LET calls == Append(s.calls, Call("read_contents", p, c))
             IN  IF c.tag = "Err"
                 THEN Outcome(s.inner, TRUE, calls, Panic)
                 ELSE Outcome(Insert(s.inner, p, ImfsFile(item.path, c.val)),
                              FALSE, calls, Some(c.val))

\* Imfs::get_contents, c being the answer read_contents(p) gives if asked
GetContentsOn(map, p, r, c) ==
    LET s == ReadIfNotExists(map, p, r)
        item == s.inner[p]
    IN  IF s.panic THEN s
        ELSE IF item = NoItem THEN Outcome(s.inner, FALSE, s.calls, None)
        ELSE IF item.kind = "File"
        THEN IF item.contents = NoBytes
             THEN LET calls == Append(s.calls, Call("read_contents", p, c))
                  IN  IF c.tag = "Err"
                      THEN Outcome(s.inner, TRUE, calls, Panic)
                      ELSE Outcome(
                               Insert(s.inner, p, ImfsFile(item.path, c.val)),
                               FALSE, calls, Some(c.val))
             ELSE Outcome(s.inner, FALSE, s.calls, Some(item.contents))
        ELSE Outcome(s.inner, FALSE, s.calls, None)

\* the orders in which a set of paths may be iterated
Orders(S) ==
    {f \in [1..Cardinality(S) -> S] : \A i, j \in DOMAIN f : f[i] = f[j] => i = j}

\* the map(|path| self.get(path)).collect() of Imfs::get_children: get on
\* each path in turn, collecting the entries; a None ends it with None
RECURSIVE CollectGets(_, _, _, _)
CollectGets(map, order, r, acc) ==
    IF order = <<>> THEN Outcome(map, FALSE, acc.calls, Some(acc.entries))
    ELSE LET g == GetOn(map, Head(order), r)
         IN  IF g.panic
             THEN Outcome(g.inner, TRUE, acc.calls \o g.calls, Panic)
             ELSE IF g.result = None
             THEN Outcome(g.inner, FALSE, acc.calls \o g.calls, None)
             ELSE CollectGets(g.inner, Tail(order), r,
                      [calls |-> acc.calls \o g.calls,
                       entries |-> Append(acc.entries, g.result.val)])

\* get_children resolving the directory itself along with its children
GetChildrenOnWithSelf(map, p, order, r) ==
    IF Children(map, p) = None THEN Outcome(map, FALSE, <<>>, None)
    ELSE CollectGets(map, <<p>> \o order, r, [calls |-> <<>>, entries |-> <<>>])

\* get_children enumerating the directory through the fetcher first
GetChildrenOnEnumerating(map, p, order, r) ==
    IF Children(map, p) = None THEN Outcome(map, FALSE, <<>>, None)
    ELSE IF map[p].kind = "Directory" /\ ~map[p].children_enumerated
    THEN LET listed == Insert(map, p, ImfsDirectory(map[p].path, TRUE))
             g == CollectGets(listed, order, r, [calls |-> <<>>, entries |-> <<>>])
         IN  Outcome(g.inner, g.panic,
                     <<Call("read_children", p, Ok(<<>>))>> \o g.calls, g.result)
    ELSE CollectGets(map, order, r, [calls |-> <<>>, entries |-> <<>>])

\* get_children filling the directory itself on a miss, as get does
GetChildrenOnFilling(map, p, order, r) ==
    LET s == ReadIfNotExists(map, p, r)
    IN  IF s.panic THEN s
        ELSE CollectGets(s.inner, order, r, [calls |-> s.calls, entries |-> <<>>])

\* Imfs::get_children, order being the order PathMap::children lists them in
GetChildrenOn(map, p, order, r) ==
    IF Children(map, p) = None THEN Outcome(map, FALSE, <<>>, None)
    ELSE CollectGets(map, order, r, [calls |-> <<>>, entries |-> <<>>])

\* the entries get can have handed out: one for each item in the map
HeldEntries(map) ==
    {ImfsEntry(ItemPath(map[q]), map[q].kind = "File") : q \in Resident(map)}

\* contents answering from the is_file flag the entry was built with
EntryContentsOnSnapshot(map, e, r, c) ==
    IF ~e.is_file THEN Outcome(map, FALSE, <<>>, None)
    ELSE GetContentsOn(map, e.path, r, c)

\* ImfsEntry::contents
EntryContentsOn(map, e, r, c) == GetContentsOn(map, e.path, r, c)

\* ImfsEntry::children
EntryChildrenOn(map, e, order, r) == GetChildrenOn(map, e.path, order, r)

\* --------------------------------------------------------------- actions
\* a miss-fill may insert only while the map holds fewer than MaxItems items
MayFill(p) == ContainsKey(inner, p) \/ Cardinality(Resident(inner)) < MaxItems

Apply(op, p, s) ==
    /\ inner' = s.inner
    /\ panicked' = s.panic
    /\ last' = Op(op, p, s.result, s.calls)
    /\ Record(s.calls)

\* A fetcher answer matters only if the method asks for it: whether it asks
\* is read off the method's own calls, and one answer stands for all otherwise.
ItemAnswers(p, calls) ==
    IF Count(calls, "read_item", p) > 0 THEN ReadItemResults(p) ELSE {Err("Other")}

AsksContents(p, r) ==
    Count(GetContentsOn(inner, p, r, Err("Other")).calls, "read_contents", p) > 0

ContentsAnswers(p, r) ==
    IF AsksContents(p, r) THEN ReadContentsResults ELSE {Err("Other")}

ChildOrders(p) ==
    IF Children(inner, p) = None THEN {<<>>} ELSE Orders(Children(inner, p).val)

ChildAnswers(p, order) ==
    IF GetChildrenOn(inner, p, order, Err("Other")).calls # <<>>
    THEN ReadItemResults(p) ELSE {Err("Other")}

Get(p) ==
    /\ ~panicked
    /\ MayFill(p)
    /\ \E r \in ItemAnswers(p, GetOn(inner, p, Err("Other")).calls) :
         Apply("get", p, GetOn(inner, p, r))
    /\ UNCHANGED firstContents

GetContents(p) ==
    /\ ~panicked
    /\ MayFill(p)
    /\ \E r \in ItemAnswers(p, GetContentsOn(inner, p, Err("Other"), Err("Other")).calls) :
         \E c \in ContentsAnswers(p, r) :
           LET s == GetContentsOn(inner, p, r, c)
           IN  /\ Apply("get_contents", p, s)
               /\ firstContents' =
                    IF s.result.tag = "Some" /\ firstContents[p] = NoBytes
                    THEN [firstContents EXCEPT ![p] = s.result.val]
                    ELSE firstContents

GetChildren(p) ==
    /\ ~panicked
    /\ \E order \in ChildOrders(p) :
         \E r \in ChildAnswers(p, order) :
           Apply("get_children", p, GetChildrenOn(inner, p, order, r))
    /\ UNCHANGED firstContents

\* would_be_resident filling the map on a miss, as get does
QueryResidentFilling(p) ==
    /\ ~panicked
    /\ MayFill(p)
    /\ \E r \in ReadItemResults(p) :
         LET s == ReadIfNotExists(inner, p, r)
         IN  /\ inner' = s.inner
             /\ panicked' = s.panic
             /\ last' = Op("would_be_resident", p,
                           Some(WouldBeResident(inner, p)), s.calls)
             /\ Record(s.calls)
    /\ UNCHANGED firstContents

\* Imfs::would_be_resident, called on the engine
QueryResident(p) ==
    /\ ~panicked
    /\ last' = Op("would_be_resident", p, Some(WouldBeResident(inner, p)), <<>>)
    /\ UNCHANGED <<inner, panicked, readItemCalls, readContentsCalls, firstContents>>

EntryContents(e) ==
    /\ ~panicked
    /\ MayFill(e.path)
    /\ \E r \in ItemAnswers(e.path,
                  EntryContentsOn(inner, e, Err("Other"), Err("Other")).calls) :
         \E c \in (IF Count(EntryContentsOn(inner, e, r, Err("Other")).calls,
                            "read_contents", e.path) > 0
                   THEN ReadContentsResults ELSE {Err("Other")}) :
           LET s == EntryContentsOn(inner, e, r, c)
           IN  /\ Apply("entry_contents", e.path, s)
               /\ firstContents' =
                    IF s.result.tag = "Some" /\ firstContents[e.path] = NoBytes
                    THEN [firstContents EXCEPT ![e.path] = s.result.val]
                    ELSE firstContents

EntryChildren(e) ==
    /\ ~panicked
    /\ \E order \in ChildOrders(e.path) :
         \E r \in (IF EntryChildrenOn(inner, e, order, Err("Other")).calls # <<>>
                   THEN ReadItemResults(e.path) ELSE {Err("Other")}) :
           Apply("entry_children", e.path, EntryChildrenOn(inner, e, order, r))
    /\ UNCHANGED firstContents

Next ==
    \/ \E p \in Paths : Get(p)
    \/ \E p \in Paths : GetContents(p)
    \/ \E p \in Paths : GetChildren(p)
    \/ \E p \in Paths : QueryResident(p)
    \/ \E e \in HeldEntries(inner) : EntryContents(e)
    \/ \E e \in HeldEntries(inner) : EntryChildren(e)

Spec == Init /\ [][Next]_vars


\* ---------------------------------------------------------------- claims
RECURSIVE SumOver(_, _)
SumOver(f, S) ==
    IF S = {} THEN 0
    ELSE LET x == CHOOSE y \in S : TRUE IN f[x] + SumOver(f, S \ {x})

\* the last fetcher call an operation made failed
FetchFailed(op) ==
    op.calls # <<>> /\ op.calls[Len(op.calls)].ret.tag = "Err"

\* C1: read_contents is invoked at most once for a path, and every
\* get_contents(p) that returns bytes returns the bytes the first
\* get_contents(p) returned, whatever the fetcher would answer now.
C1_ContentMemoization ==
    /\ \A p \in Paths : readContentsCalls[p] <= 1
    /\ (last.op = "get_contents" /\ last.result.tag = "Some")
         => last.result.val = firstContents[last.path]

\* a get_contents served from the buffer an earlier get_contents filled
C1_Witness ==
    /\ last.op = "get_contents"
    /\ last.result.tag = "Some"
    /\ last.calls = <<>>
    /\ readContentsCalls[last.path] = 1

\* C2: from an empty map, when read_item(f) answers a File without contents
\* and read_contents(f) answers c, get(f) followed by get_contents(f) gives
\* an entry with is_file and then the bytes c, with one read_item call and
\* one read_contents call made in total.
C2_MissFill ==
    [][\A f \in Paths :
        (/\ last.op = "get" /\ last.path = f
         /\ Resident(inner) = {f}
         /\ Len(last.calls) = 1
         /\ last.calls[1].ret.tag = "Ok"
         /\ last.calls[1].ret.val.kind = "File"
         /\ last.calls[1].ret.val.contents = NoBytes
         /\ last'.op = "get_contents" /\ last'.path = f
         /\ ~FetchFailed(last'))
        => (/\ last.result.tag = "Some"
            /\ last.result.val.is_file
            /\ Len(last'.calls) = 1
            /\ last'.calls[1] = Call("read_contents", f, Ok(last'.result.val))
            /\ last'.result.tag = "Some"
            /\ SumOver(readItemCalls', Paths) = 1
            /\ SumOver(readContentsCalls', Paths) = 1)]_vars

\* the only item of the map has just had its contents read, after one
\* read_item and one read_contents in all
C2_Witness ==
    /\ last.op = "get_contents"
    /\ Resident(inner) = {last.path}
    /\ last.result.tag = "Some"
    /\ Len(last.calls) = 1
    /\ last.calls[1].fn = "read_contents"
    /\ SumOver(readItemCalls, Paths) = 1
    /\ SumOver(readContentsCalls, Paths) = 1

\* C3: a get(p) that follows a successful get(p) returns the same entry
\* (path and is_file) and makes no fetcher call.
C3_IdempotentResidency ==
    [][(/\ last.op = "get" /\ last.result.tag = "Some"
        /\ last'.op = "get" /\ last'.path = last.path)
       => (last'.result = last.result /\ last'.calls = <<>>)]_vars

\* a get answered from the map, whose item came from one read_item
C3_Witness ==
    /\ last.op = "get"
    /\ last.result.tag = "Some"
    /\ last.calls = <<>>
    /\ readItemCalls[last.path] = 1

\* C4: when a fetcher call of get or get_contents fails, the operation
\* returns a failure value to its caller and the program is not aborted.
C4_FetchFailureReturned ==
    (last.op \in {"get", "get_contents"} /\ FetchFailed(last))
      => (~panicked /\ last.result.tag = "Failure")

\* C5: when the map has no item at p and read_item(p) fails with not-found,
\* get(p) returns None, the program goes on and nothing is inserted.
C5_NotFoundIsAbsence ==
    (/\ last.op = "get"
     /\ FetchFailed(last)
     /\ last.calls[1].ret.val = "NotFound")
      => (~panicked /\ last.result = None /\ ~ContainsKey(inner, last.path))

C7_DocComment ==
    last.op = "would_be_resident" =>
      LET p == last.path
          hasParent == Parent(p) # None
          parent == inner[Parent(p).val]
      IN  last.result.val = TRUE <=>
            \/ ContainsKey(inner, p)
            \/ /\ hasParent
               /\ parent.kind = "Directory"
               /\ parent.children_enumerated = TRUE

\* C8: get_contents of a path whose item is a Directory returns None, does
\* not panic and makes no read_contents call; when the Directory was in the
\* map before the call, no fetcher call is made and the map is unchanged.
C8_DirectoryHasNoContents ==
    [][\A p \in Paths :
        (last'.op = "get_contents" /\ last'.path = p) =>
          /\ inner'[p].kind = "Directory" =>
               /\ last'.result = None
               /\ ~panicked'
               /\ Count(last'.calls, "read_contents", p) = 0
          /\ inner[p].kind = "Directory" =>
               /\ last'.result = None
               /\ last'.calls = <<>>
               /\ inner' = inner]_vars

\* a get_contents of a Directory the map already held
C8_Witness ==
    /\ last.op = "get_contents"
    /\ inner[last.path].kind = "Directory"
    /\ last.calls = <<>>
    /\ last.result = None

\* C9: get_children(p) returns None when the map has no children list for p,
\* and otherwise one entry per path the map lists as a child of p, each
\* built from the item at that path, and nothing else.
C9_ChildrenFromStore ==
    last.op = "get_children" =>
      LET kids == Children(inner, last.path)
      IN  IF kids = None THEN last.result = None
          ELSE /\ last.result.tag = "Some"
               /\ Len(last.result.val) = Cardinality(kids.val)
               /\ \E order \in Orders(kids.val) :
                    \A i \in DOMAIN order :
                      last.result.val[i] =
                        ImfsEntry(inner[order[i]].path,
                                  inner[order[i]].kind = "File")

\* two children listed while the map holds a third item that is no child
C9_Witness ==
    /\ last.op = "get_children"
    /\ last.result.tag = "Some"
    /\ Len(last.result.val) = 2
    /\ Cardinality(Resident(inner)) = 3

\* C10 as claimed: get(p) and get_contents(p) leave the item of every other
\* path unchanged, and on a failed fetch the item at p as well.
C10_Original ==
    [][\A p \in Paths :
        (last'.op \in {"get", "get_contents"} /\ last'.path = p) =>
          /\ \A q \in Paths \ {p} : inner'[q] = inner[q]
          /\ FetchFailed(last') => inner'[p] = inner[p]]_vars

\* C10 amended: get(p) and get_contents(p) leave the item of every other
\* path unchanged; when read_item(p) fails the item at p is unchanged; when
\* read_contents(p) fails the item at p is a File with an empty buffer,
\* unchanged if the map held it before and else the item read_item answered.
C10_Isolation ==
    [][\A p \in Paths :
        (last'.op \in {"get", "get_contents"} /\ last'.path = p) =>
          /\ \A q \in Paths \ {p} : inner'[q] = inner[q]
          /\ FetchFailed(last') =>
               LET failed == last'.calls[Len(last'.calls)]
               IN  /\ failed.fn = "read_item" => inner'[p] = inner[p]
                   /\ failed.fn = "read_contents" =>
                        /\ inner'[p].kind = "File"
                        /\ inner'[p].contents = NoBytes
                        /\ ContainsKey(inner, p) => inner'[p] = inner[p]
                        /\ ~ContainsKey(inner, p) =>
                             inner'[p] = last'.calls[1].ret.val]_vars

\* read_contents failed right after the same call had inserted the item
C10_Witness ==
    /\ last.op = "get_contents"
    /\ panicked
    /\ Len(last.calls) = 2
    /\ last.calls[2].fn = "read_contents"
    /\ inner[last.path].kind = "File"

\* C11: read_item is invoked at most once per path, and an item in the map
\* keeps its kind through every operation, whatever the fetcher would now
\* answer for its path.
C11_KindStability ==
    [][/\ \A p \in Paths : readItemCalls'[p] <= 1
       /\ \A p \in Paths :
            ContainsKey(inner, p) => inner'[p].kind = inner[p].kind]_vars

\* a get_contents of a path another operation had inserted, with a second
\* item in the map
C11_Witness ==
    /\ last.op = "get_contents"
    /\ ContainsKey(inner, last.path)
    /\ Count(last.calls, "read_item", last.path) = 0
    /\ readItemCalls[last.path] = 1
    /\ Cardinality(Resident(inner)) >= 2

\* C12: read_contents is invoked only for the path of the operation, as its
\* last fetcher call, and only on a File with an empty buffer: one the map
\* held before the call, or one the read_item call just before it returned
\* for a path the map did not hold; never after read_item gave a Directory.
C12_FetchOrdering ==
    [][\A i \in DOMAIN last'.calls :
        last'.calls[i].fn = "read_contents" =>
          LET p == last'.path
          IN  /\ last'.calls[i].path = p
              /\ i = Len(last'.calls)
              /\ \/ /\ i = 1
                    /\ inner[p].kind = "File"
                    /\ inner[p].contents = NoBytes
                 \/ /\ i = 2
                    /\ ~ContainsKey(inner, p)
                    /\ last'.calls[1].fn = "read_item"
                    /\ last'.calls[1].path = p
                    /\ last'.calls[1].ret.tag = "Ok"
                    /\ last'.calls[1].ret.val.kind = "File"
                    /\ last'.calls[1].ret.val.contents = NoBytes]_vars

\* a get_contents on a miss: read_item, then read_contents, both answered
C12_Witness ==
    /\ last.op = "get_contents"
    /\ ~panicked
    /\ Len(last.calls) = 2
    /\ last.calls[1].fn = "read_item"
    /\ last.calls[2].fn = "read_contents"

\* C13: the only fetcher operations invoked are read_item and read_contents,
\* and no operation changes the children_enumerated flag of a Directory in
\* the map.
C13_NoEnumeration ==
    [][/\ \A i \in DOMAIN last'.calls :
            last'.calls[i].fn \in {"read_item", "read_contents"}
       /\ \A p \in Paths :
            inner[p].kind = "Directory" =>
              /\ inner'[p].kind = "Directory"
              /\ inner'[p].children_enumerated = inner[p].children_enumerated]_vars

\* get_children of a Directory that is still not enumerated afterwards
C13_Witness ==
    /\ last.op = "get_children"
    /\ last.result.tag = "Some"
    /\ inner[last.path].kind = "Directory"
    /\ ~inner[last.path].children_enumerated

\* C14: get_children(p) makes no fetcher call, does not panic and leaves the
\* map unchanged; for a path not in the map it returns None without a
\* read_item call.
C14_ChildrenNoMissFill ==
    [][last'.op = "get_children" =>
         /\ last'.calls = <<>>
         /\ ~panicked'
         /\ inner' = inner
         /\ readItemCalls' = readItemCalls
         /\ ~ContainsKey(inner, last'.path) => last'.result = None]_vars

\* get_children of a path that is not in the map and was never read, while
\* the map holds other items
C14_Witness ==
    /\ last.op = "get_children"
    /\ ~ContainsKey(inner, last.path)
    /\ last.result = None
    /\ readItemCalls[last.path] = 0
    /\ Resident(inner) # {}

\* C15: no operation removes an item: a path in the map stays in the map,
\* and would_be_resident stays true for it.
C15_ResidencyMonotone ==
    [][\A p \in Paths :
        ContainsKey(inner, p) =>
          (ContainsKey(inner', p) /\ WouldBeResident(inner', p))]_vars

\* would_be_resident answers true for a path an earlier operation inserted,
\* two other operations having inserted items since
C15_Witness ==
    /\ last.op = "would_be_resident"
    /\ ContainsKey(inner, last.path)
    /\ last.result.val = TRUE
    /\ Cardinality(Resident(inner)) = 3

\* the operations that run get_contents on a path
ContentsOps == {"get_contents", "entry_contents"}

\* C16: get(p) makes no read_contents call and inserts on a miss exactly the
\* item read_item returned; a File whose buffer is empty keeps it empty
\* through every operation but a get_contents of its own path.
C16_GetIsLazy ==
    [][\A p \in Paths :
        /\ (last'.op = "get" /\ last'.path = p) =>
             /\ \A i \in DOMAIN last'.calls : last'.calls[i].fn # "read_contents"
             /\ readContentsCalls' = readContentsCalls
             /\ (~ContainsKey(inner, p) /\ ~panicked') =>
                  inner'[p] = last'.calls[1].ret.val
        /\ (/\ inner[p].kind = "File"
            /\ inner[p].contents = NoBytes
            /\ ~(last'.op \in ContentsOps /\ last'.path = p)) =>
             inner'[p] = inner[p]]_vars

\* get has just inserted a File whose buffer is empty
C16_Witness ==
    /\ last.op = "get"
    /\ Len(last.calls) = 1
    /\ inner[last.path].kind = "File"
    /\ inner[last.path].contents = NoBytes

\* C17 as claimed: a successful get(p) returns an entry whose path is p, and
\* every item in the map carries the path it is stored under.
C17_Original ==
    /\ (last.op = "get" /\ last.result.tag = "Some")
         => last.result.val.path = last.path
    /\ \A p \in Paths : ContainsKey(inner, p) => inner[p].path = p

\* C17 amended: a successful get(p) returns an entry whose path is the path
\* field of the item stored under p; that field is the one read_item(p) put
\* in the item when it was inserted and never changes afterwards.
C17_EntryPath ==
    [][/\ (last'.op = "get" /\ last'.result.tag = "Some")
            => last'.result.val.path = inner'[last'.path].path
       /\ \A p \in Paths :
            /\ ContainsKey(inner, p) => inner'[p].path = inner[p].path
            /\ (~ContainsKey(inner, p) /\ ContainsKey(inner', p)) =>
                 /\ last'.path = p
                 /\ last'.calls[1] =
                      Call("read_item", p, Ok(last'.calls[1].ret.val))
                 /\ inner'[p].path = last'.calls[1].ret.val.path]_vars

\* get returned an entry whose path is not the path asked for
C17_Witness ==
    /\ last.op = "get"
    /\ last.result.tag = "Some"
    /\ last.result.val.path # last.path

\* C18: contents and children called on an entry have the result, the
\* fetcher calls and the effect on the map of get_contents and get_children
\* called with the entry's path on the same map, whatever is_file flag the
\* entry was built with; is_directory is the negation of is_file.
C18_EntryForwarding ==
    [][/\ last'.op = "entry_contents" =>
            \E r \in ReadItemResults(last'.path), c \in ReadContentsResults :
              LET g == GetContentsOn(inner, last'.path, r, c)
              IN  /\ inner' = g.inner
                  /\ panicked' = g.panic
                  /\ last'.result = g.result
                  /\ last'.calls = g.calls
       /\ last'.op = "entry_children" =>
            \E order \in ChildOrders(last'.path), r \in ReadItemResults(last'.path) :
              LET g == GetChildrenOn(inner, last'.path, order, r)
              IN  /\ inner' = g.inner
                  /\ panicked' = g.panic
                  /\ last'.result = g.result
                  /\ last'.calls = g.calls
       /\ \A e \in HeldEntries(inner') : IsDirectory(e) = ~e.is_file]_vars

\* contents of an entry built from a Directory returns bytes: the entry's
\* path names a File in the map
C18_Witness ==
    /\ last.op = "entry_contents"
    /\ last.result.tag = "Some"
    /\ \E q \in Resident(inner) :
         inner[q].kind = "Directory" /\ inner[q].path = last.path

\* C19: would_be_resident makes no fetcher call and changes nothing of the
\* engine, so after it get gives, for every path and every read_item answer,
\* the result and the fetcher calls it gave before it, and so does
\* get_contents for every read_contents answer to a File just read.
C19_PureQuery ==
    [][last'.op = "would_be_resident" =>
         /\ last'.calls = <<>>
         /\ inner' = inner
         /\ panicked' = panicked
         /\ readItemCalls' = readItemCalls
         /\ readContentsCalls' = readContentsCalls
         /\ \A p \in Paths :
              /\ \A r \in ReadItemResults(p) :
                   GetOn(inner', p, r) = GetOn(inner, p, r)
              /\ \A c \in ReadContentsResults :
                   GetContentsOn(inner', p, Ok(ImfsFile(p, NoBytes)), c)
                     = GetContentsOn(inner, p, Ok(ImfsFile(p, NoBytes)), c)]_vars

\* a path that is not in the map is answered false and has still not been
\* read, while the map holds other items
C19_Witness ==
    /\ last.op = "would_be_resident"
    /\ ~ContainsKey(inner, last.path)
    /\ last.result.val = FALSE
    /\ readItemCalls[last.path] = 0
    /\ Resident(inner) # {}
====
